---- MODULE Spec2Model ----
(***************************************************************************)
(* Model of the Application Service of baetyl-cloud                        *)
(* (src/service/application.go).  Every public operation is a sequence of  *)
(* synchronous collaborator calls (Resource Store, Index Service, History  *)
(* Store); each collaborator call is one step of the model and may fail.   *)
(***************************************************************************)
EXTENDS Naturals, Sequences, FiniteSets, TLC

\* ------------------------------------------------------------------------
\* Bounds of the model
\* ------------------------------------------------------------------------
\* versions the stores hand out are 1..MaxVer (0 is the empty version "")
MaxVer == 2
\* number of operations a run issues
MaxOps == 2

\* ------------------------------------------------------------------------
\* Data model (specV1.Application and its parts)
\* ------------------------------------------------------------------------
Procs == {1, 2}
SeqProcs == {1}
NS == {"t1", "sys"}
TargetNS == {"t1"}
AppNames == {"app"}
SecretNames == {"sec1"}
BaseConfigNames == {"cfg1", "cfg2"}

Ref(n, v) == [Name |-> n, Version |-> v]
\* a nil *ObjectReference
NilRef == Ref("", 0)
Vol(n, c, s) == [Name |-> n, Config |-> c, Secret |-> s]
Svc(n, m) == [Name |-> n, VolumeMounts |-> m]
App(ns, n, ver, vols, svcs) ==
    [Namespace |-> ns, Name |-> n, Version |-> ver, Volumes |-> vols, Services |-> svcs]
\* a nil *Application
NoApp == App("", "", 0, <<>>, <<>>)

Err(kind, where, name) == [kind |-> kind, where |-> where, name |-> name]
\* a nil error
NoErr == Err("", "", "")
\* the error a failed collaborator call returns
CallErr(callName) == Err("collaborator", callName, "")

\* common.RandString(9): the token appended to a colliding Config name
RandTokens == {"r"}
Renamed(n, tok) == n \o "-" \o tok
ConfigUniverse == BaseConfigNames \cup {Renamed(n, t) : n \in BaseConfigNames, t \in RandTokens}

\* ------------------------------------------------------------------------
\* Inputs the callers draw from
\* ------------------------------------------------------------------------
VCfg1 == <<Vol("v1", Ref("cfg1", 0), NilRef)>>
VDup == <<Vol("v1", Ref("cfg1", 0), NilRef), Vol("v1", NilRef, Ref("sec1", 0))>>
\* Applications that pass validName
ValidApps ==
    { App("", "app", 1, <<>>, <<>>),
      App("", "app", 1, VCfg1, <<Svc("s1", <<"v1">>)>>),
      App("", "app", 1, <<Vol("v1", Ref("cfg2", 0), NilRef), Vol("v2", NilRef, Ref("sec1", 0))>>,
          <<Svc("s1", <<"v2">>)>>) }
\* Applications that validName rejects: a repeated Volume name, a repeated
\* Service name, a mount of no Volume
InvalidApps ==
    { App("", "app", 1, VDup, <<>>),
      App("", "app", 1, VCfg1, <<Svc("s1", <<>>), Svc("s1", <<"v1">>)>>),
      App("", "app", 1, VCfg1, <<Svc("s1", <<"vX">>)>>) }
InputApps == ValidApps \cup InvalidApps
\* Create validates nothing: its callers pass validated Applications and one
\* with a repeated Volume name
CreateApps == ValidApps \cup {App("", "app", 1, VDup, <<>>)}
\* a base template of another namespace whose Config the target namespace lacks
FreshBase == App("sys", "base", 1, <<Vol("b2", Ref("cfg2", 1), NilRef)>>, <<Svc("bs", <<"b2">>)>>)
\* a base template: nil, one of the target namespace, one of another namespace
\* (its first Config collides with a Config of the target namespace)
InputBases ==
    { NoApp,
      App("t1", "base", 1, <<Vol("b1", Ref("cfg1", 1), NilRef)>>, <<Svc("bs", <<"b1">>)>>),
      App("sys", "base", 1, <<Vol("v1", Ref("cfg1", 1), NilRef), Vol("b2", Ref("cfg2", 1), NilRef)>>,
          <<Svc("bs", <<"b2">>)>>) }
\* the Applications CreateWithBase merges a base into
BaseApps ==
    { App("", "app", 1, <<>>, <<>>),
      App("", "app", 1, VCfg1, <<Svc("s1", <<"v1">>)>>),
      App("", "app", 1, <<Vol("v2", NilRef, Ref("sec1", 0))>>, <<Svc("s1", <<"vX">>)>>) }

\* ------------------------------------------------------------------------
\* State
\* ------------------------------------------------------------------------
VARIABLES
    apps,      \* Resource Store: (namespace, name) -> Application or NoApp
    configs,   \* Resource Store: (namespace, name) -> version of the Config, 0 if absent
    index,     \* Index Service: (namespace, app name) -> names the app references
    hist,      \* History Store: records appended
    call,      \* per caller: the operation in progress, its locals and its result
    ops        \* operations issued so far

vars == <<apps, configs, index, hist, call, ops>>

\* Secrets of the Resource Store (never written by this service)
SecretVersion(ns, n) == IF ns = "t1" /\ n = "sec1" THEN 1 ELSE 0

NoRefs == [configs |-> {}, secrets |-> {}]

IdleCall ==
    [pc |-> "idle", op |-> "", ns |-> "", name |-> "", ver |-> 0,
     app |-> NoApp, base |-> NoApp,
     cfgs |-> <<>>, secs |-> <<>>, rerr |-> NoErr, i |-> 1,
     newApp |-> NoApp, res |-> [err |-> NoErr, app |-> NoApp], log |-> <<>>]

LogEntry(callName, ns, name, names, ver, ok) ==
    [call |-> callName, ns |-> ns, name |-> name, names |-> names, ver |-> ver, ok |-> ok]

Range(s) == {s[k] : k \in 1..Len(s)}

Init ==
    /\ apps = [k \in NS \X AppNames |-> NoApp]
    /\ configs = [k \in NS \X ConfigUniverse |->
                    IF k \in {<<"t1", "cfg1">>, <<"sys", "cfg1">>, <<"sys", "cfg2">>} THEN 1 ELSE 0]
    /\ index = [k \in NS \X AppNames |-> NoRefs]
    /\ hist = {}
    /\ call = [p \in Procs |-> IdleCall]
    /\ ops = 0

\* ------------------------------------------------------------------------
\* Collaborators (interfaces only in the repository): a call either succeeds
\* with the effect below or fails and changes nothing
\* ------------------------------------------------------------------------
\* storage.GetConfig / storage.GetSecret can succeed only for a stored name
ConfigFound(ns, n) == configs[<<ns, n>>] # 0
SecretFound(ns, n) == SecretVersion(ns, n) # 0
\* storage.CreateApplication can succeed only for a new name; the store sets
\* the namespace and assigns the version
CanCreateApp(ns, n) == apps[<<ns, n>>] = NoApp
\* storage.UpdateApplication can succeed only for a stored name
CanUpdateApp(ns, n) == apps[<<ns, n>>] # NoApp
\* storage.CreateConfig can succeed only for a new name
CanCreateConfig(ns, n) == configs[<<ns, n>>] = 0
Stored(ns, a, v) == [a EXCEPT !.Namespace = ns, !.Version = v]
\* indexService.Refresh*IndexByApp: full replace of the app's contribution
RefreshConfigIndex(ns, n, names) == [index EXCEPT ![<<ns, n>>].configs = Range(names)]
RefreshSecretIndex(ns, n, names) == [index EXCEPT ![<<ns, n>>].secrets = Range(names)]
\* dbStorage.CreateApplication / DeleteApplication
HistCreated(a) == [kind |-> "create", ns |-> a.Namespace, name |-> a.Name, ver |-> a.Version]
HistDeleted(ns, n, v) == [kind |-> "delete", ns |-> ns, name |-> n, ver |-> v]

\* ------------------------------------------------------------------------
\* getConfigsAndSecrets: one iteration of the loop over app.Volumes
\* ------------------------------------------------------------------------
\* mutant: the failure is noted and the loop goes on with the next Volume
ResolveFailedContinues(c, callName, lg) == [c EXCEPT !.log = lg, !.i = c.i + 1]

\* the (nil, nil, err) return of getConfigsAndSecrets
ResolveFailed(c, callName, lg) ==
    [c EXCEPT !.cfgs = <<>>, !.secs = <<>>, !.rerr = CallErr(callName), !.log = lg]

ResolveSecret(c, okS) ==
    LET v == c.app.Volumes[c.i]
        got == okS /\ SecretFound(c.ns, v.Secret.Name)
        lg == Append(c.log, LogEntry("GetSecret", c.ns, v.Secret.Name, {},
                                     IF got THEN SecretVersion(c.ns, v.Secret.Name) ELSE 0, got))
    IN  IF v.Secret = NilRef THEN [c EXCEPT !.i = c.i + 1]
        ELSE IF ~got THEN ResolveFailed(c, "GetSecret", lg)
        ELSE [c EXCEPT !.app.Volumes[c.i].Secret.Version = SecretVersion(c.ns, v.Secret.Name),
                       !.secs = Append(c.secs, v.Secret.Name),
                       !.log = lg,
                       !.i = c.i + 1]

ResolveVolume(c, okC, okS) ==
    LET v == c.app.Volumes[c.i]
        got == okC /\ ConfigFound(c.ns, v.Config.Name)
        lg == Append(c.log, LogEntry("GetConfig", c.ns, v.Config.Name, {},
                                     IF got THEN configs[<<c.ns, v.Config.Name>>] ELSE 0, got))
    IN  IF v.Config = NilRef THEN ResolveSecret(c, okS)
        ELSE IF ~got THEN ResolveFailed(c, "GetConfig", lg)
        ELSE ResolveSecret([c EXCEPT !.app.Volumes[c.i].Config.Version = configs[<<c.ns, v.Config.Name>>],
                                     !.cfgs = Append(c.cfgs, v.Config.Name),
                                     !.log = lg], okS)

\* the loop of getConfigsAndSecrets has returned
ResolveOver(c) == c.rerr # NoErr \/ c.i > Len(c.app.Volumes)

\* a call returns (err, app)
Return(c, e, a) == [c EXCEPT !.pc = "done", !.res = [err |-> e, app |-> a]]

\* ------------------------------------------------------------------------
\* Create
\* ------------------------------------------------------------------------
StartCreate(p) ==
    /\ \A q \in Procs : call[q].pc = "idle"
    /\ ops < MaxOps
    /\ \E ns \in TargetNS, a \in CreateApps :
         call' = [call EXCEPT ![p] = [IdleCall EXCEPT !.pc = "c_resolve", !.op = "Create",
                                                      !.ns = ns, !.app = a]]
    /\ ops' = ops + 1
    /\ UNCHANGED <<apps, configs, index, hist>>

\* Create's use of the error of getConfigsAndSecrets: err is assigned at
\* line 66 and overwritten at line 67 without being read
CreateAfterResolve(c) == [c EXCEPT !.pc = "c_refcfg"]

CreateResolve(p) ==
    /\ call[p].pc = "c_resolve"
    /\ \E okC \in BOOLEAN, okS \in BOOLEAN :
         LET c == call[p]
             c2 == IF c.i > Len(c.app.Volumes) THEN c ELSE ResolveVolume(c, okC, okS)
         IN  call' = [call EXCEPT ![p] = IF ResolveOver(c2) THEN CreateAfterResolve(c2) ELSE c2]
    /\ UNCHANGED <<apps, configs, index, hist, ops>>

CreateAfterRefreshConfig(c, ok) ==
    IF ok THEN [c EXCEPT !.pc = "c_refsec"] ELSE Return(c, CallErr("RefreshConfigIndexByApp"), NoApp)

CreateRefreshConfig(p) ==
    /\ call[p].pc = "c_refcfg"
    /\ \E ok \in BOOLEAN :
         LET c == call[p]
             lg == Append(c.log, LogEntry("RefreshConfigIndexByApp", c.ns, c.app.Name, Range(c.cfgs), 0, ok))
         IN  /\ index' = IF ok THEN RefreshConfigIndex(c.ns, c.app.Name, c.cfgs) ELSE index
             /\ call' = [call EXCEPT ![p] = CreateAfterRefreshConfig([c EXCEPT !.log = lg], ok)]
    /\ UNCHANGED <<apps, configs, hist, ops>>

\* mutant: the error of the refresh is not checked
CreateAfterRefreshSecretUnchecked(c, ok) == [c EXCEPT !.pc = "c_store"]

CreateAfterRefreshSecret(c, ok) ==
    IF ok THEN [c EXCEPT !.pc = "c_store"] ELSE Return(c, CallErr("RefreshSecretIndexByApp"), NoApp)

CreateRefreshSecret(p) ==
    /\ call[p].pc = "c_refsec"
    /\ \E ok \in BOOLEAN :
         LET c == call[p]
             lg == Append(c.log, LogEntry("RefreshSecretIndexByApp", c.ns, c.app.Name, Range(c.secs), 0, ok))
         IN  /\ index' = IF ok THEN RefreshSecretIndex(c.ns, c.app.Name, c.secs) ELSE index
             /\ call' = [call EXCEPT ![p] = CreateAfterRefreshSecret([c EXCEPT !.log = lg], ok)]
    /\ UNCHANGED <<apps, configs, hist, ops>>

\* mutant: the error of CreateApplication is not looked at
CreateAfterStoreIgnoresError(c, ok, stored) ==
    [c EXCEPT !.pc = "c_hist", !.app = IF ok THEN stored ELSE c.app]

\* app, err = a.storage.CreateApplication(namespace, app)
CreateAfterStore(c, ok, stored) ==
    IF ok THEN [c EXCEPT !.pc = "c_hist", !.app = stored]
    ELSE Return(c, CallErr("CreateApplication"), NoApp)

CreateStore(p) ==
    /\ call[p].pc = "c_store"
    /\ \E fine \in BOOLEAN, v \in 1..MaxVer :
         LET c == call[p]
             ok == fine /\ CanCreateApp(c.ns, c.app.Name)
             stored == Stored(c.ns, c.app, v)
             lg == Append(c.log, LogEntry("CreateApplication", c.ns, c.app.Name, {}, IF ok THEN v ELSE 0, ok))
         IN  /\ apps' = IF ok THEN [apps EXCEPT ![<<c.ns, c.app.Name>>] = stored] ELSE apps
             /\ call' = [call EXCEPT ![p] = CreateAfterStore([c EXCEPT !.log = lg], ok, stored)]
    /\ UNCHANGED <<configs, index, hist, ops>>

\* a failure of dbStorage.CreateApplication is logged; Create returns app, nil
CreateAfterHistory(c, ok) == Return(c, NoErr, c.app)

CreateHistory(p) ==
    /\ call[p].pc = "c_hist"
    /\ \E ok \in BOOLEAN :
         LET c == call[p]
             lg == Append(c.log, LogEntry("History.CreateApplication", c.app.Namespace, c.app.Name, {}, c.app.Version, ok))
         IN  /\ hist' = IF ok THEN hist \cup {HistCreated(c.app)} ELSE hist
             /\ call' = [call EXCEPT ![p] = CreateAfterHistory([c EXCEPT !.log = lg], ok)]
    /\ UNCHANGED <<apps, configs, index, ops>>

\* the caller takes the result; the service is ready for the next request
Finish(p) ==
    /\ call[p].pc = "done"
    /\ call' = [call EXCEPT ![p] = IdleCall]
    /\ UNCHANGED <<apps, configs, index, hist, ops>>

\* ------------------------------------------------------------------------
\* validName
\* ------------------------------------------------------------------------
RECURSIVE VolumeLoop(_, _, _)
\* lines 242-250: returns the error and the set vf
VolumeLoop(vols, j, vf) ==
    IF j > Len(vols) THEN [err |-> NoErr, vf |-> vf]
    ELSE IF vols[j].Name \in vf
         THEN [err |-> Err("ErrAppNameConflict", "Volumes[]", vols[j].Name), vf |-> vf]
         ELSE VolumeLoop(vols, j + 1, vf \cup {vols[j].Name})

\* mutant: the loop returns after looking at the first mount
MountLoopFirstOnly(mounts, k, vf) ==
    IF k > Len(mounts) THEN NoErr
    ELSE IF mounts[k] \notin vf THEN Err("ErrVolumeNotFoundWhenMount", "", mounts[k])
         ELSE NoErr

RECURSIVE MountLoop(_, _, _)
\* lines 258-263
MountLoop(mounts, k, vf) ==
    IF k > Len(mounts) THEN NoErr
    ELSE IF mounts[k] \notin vf THEN Err("ErrVolumeNotFoundWhenMount", "", mounts[k])
         ELSE MountLoop(mounts, k + 1, vf)

RECURSIVE ServiceLoop(_, _, _, _)
\* lines 252-265
ServiceLoop(svcs, j, sf, vf) ==
    IF j > Len(svcs) THEN NoErr
    ELSE IF svcs[j].Name \in sf THEN Err("ErrAppNameConflict", "Services[]", svcs[j].Name)
         ELSE LET me == MountLoop(svcs[j].VolumeMounts, 1, vf)
              IN  IF me # NoErr THEN me
                  ELSE ServiceLoop(svcs, j + 1, sf \cup {svcs[j].Name}, vf)

\* mutant: the Services are scanned before the Volumes
validNameServicesFirst(a) ==
    LET se == ServiceLoop(a.Services, 1, {}, {a.Volumes[j].Name : j \in 1..Len(a.Volumes)})
    IN  IF se # NoErr THEN se ELSE VolumeLoop(a.Volumes, 1, {}).err

validName(a) ==
    LET vr == VolumeLoop(a.Volumes, 1, {})
    IN  IF vr.err # NoErr THEN vr.err ELSE ServiceLoop(a.Services, 1, {}, vr.vf)

\* ------------------------------------------------------------------------
\* Update
\* ------------------------------------------------------------------------
StartUpdate(p) ==
    /\ \A q \in Procs : call[q].pc = "idle"
    /\ ops < MaxOps
    /\ \E ns \in TargetNS, a \in InputApps :
         call' = [call EXCEPT ![p] = [IdleCall EXCEPT !.pc = "u_valid", !.op = "Update",
                                                      !.ns = ns, !.app = a]]
    /\ ops' = ops + 1
    /\ UNCHANGED <<apps, configs, index, hist>>

UpdateAfterValidate(c, e) ==
    IF e # NoErr THEN Return(c, e, NoApp) ELSE [c EXCEPT !.pc = "u_resolve"]

UpdateValidate(p) ==
    /\ call[p].pc = "u_valid"
    /\ call' = [call EXCEPT ![p] = UpdateAfterValidate(call[p], validName(call[p].app))]
    /\ UNCHANGED <<apps, configs, index, hist, ops>>

\* mutant: the error of getConfigsAndSecrets is not checked
UpdateAfterResolveUnchecked(c) == [c EXCEPT !.pc = "u_store"]

\* mutant: the name lists are lost on the way to the refreshes
UpdateAfterResolveDropsNames(c) ==
    IF c.rerr # NoErr THEN Return(c, c.rerr, NoApp)
    ELSE [c EXCEPT !.pc = "u_store", !.cfgs = <<>>, !.secs = <<>>]

UpdateAfterResolve(c) ==
    IF c.rerr # NoErr THEN Return(c, c.rerr, NoApp) ELSE [c EXCEPT !.pc = "u_store"]

UpdateResolve(p) ==
    /\ call[p].pc = "u_resolve"
    /\ \E okC \in BOOLEAN, okS \in BOOLEAN :
         LET c == call[p]
             c2 == IF c.i > Len(c.app.Volumes) THEN c ELSE ResolveVolume(c, okC, okS)
         IN  call' = [call EXCEPT ![p] = IF ResolveOver(c2) THEN UpdateAfterResolve(c2) ELSE c2]
    /\ UNCHANGED <<apps, configs, index, hist, ops>>

\* mutant: the index refreshes are left out
UpdateAfterStoreSkipsRefresh(c, ok, stored) ==
    IF ok THEN [c EXCEPT !.pc = "u_hist", !.newApp = stored]
    ELSE Return(c, CallErr("UpdateApplication"), NoApp)

\* newApp, err := a.storage.UpdateApplication(namespace, app)
UpdateAfterStore(c, ok, stored) ==
    IF ok THEN [c EXCEPT !.pc = "u_refcfg", !.newApp = stored]
    ELSE Return(c, CallErr("UpdateApplication"), NoApp)

UpdateStore(p) ==
    /\ call[p].pc = "u_store"
    /\ \E fine \in BOOLEAN, v \in 1..MaxVer :
         LET c == call[p]
             ok == fine /\ CanUpdateApp(c.ns, c.app.Name)
             stored == Stored(c.ns, c.app, v)
             lg == Append(c.log, LogEntry("UpdateApplication", c.ns, c.app.Name, {}, IF ok THEN v ELSE 0, ok))
         IN  /\ apps' = IF ok THEN [apps EXCEPT ![<<c.ns, c.app.Name>>] = stored] ELSE apps
             /\ call' = [call EXCEPT ![p] = UpdateAfterStore([c EXCEPT !.log = lg], ok, stored)]
    /\ UNCHANGED <<configs, index, hist, ops>>

UpdateAfterRefreshConfig(c, ok) ==
    IF ok THEN [c EXCEPT !.pc = "u_refsec"] ELSE Return(c, CallErr("RefreshConfigIndexByApp"), NoApp)

UpdateRefreshConfig(p) ==
    /\ call[p].pc = "u_refcfg"
    /\ \E ok \in BOOLEAN :
         LET c == call[p]
             lg == Append(c.log, LogEntry("RefreshConfigIndexByApp", c.ns, c.newApp.Name, Range(c.cfgs), 0, ok))
         IN  /\ index' = IF ok THEN RefreshConfigIndex(c.ns, c.newApp.Name, c.cfgs) ELSE index
             /\ call' = [call EXCEPT ![p] = UpdateAfterRefreshConfig([c EXCEPT !.log = lg], ok)]
    /\ UNCHANGED <<apps, configs, hist, ops>>

\* mutant: a failed refresh is logged and the call goes on
UpdateAfterRefreshSecretLogged(c, ok) == [c EXCEPT !.pc = "u_hist"]

UpdateAfterRefreshSecret(c, ok) ==
    IF ok THEN [c EXCEPT !.pc = "u_hist"] ELSE Return(c, CallErr("RefreshSecretIndexByApp"), NoApp)

UpdateRefreshSecret(p) ==
    /\ call[p].pc = "u_refsec"
    /\ \E ok \in BOOLEAN :
         LET c == call[p]
             lg == Append(c.log, LogEntry("RefreshSecretIndexByApp", c.ns, c.newApp.Name, Range(c.secs), 0, ok))
         IN  /\ index' = IF ok THEN RefreshSecretIndex(c.ns, c.newApp.Name, c.secs) ELSE index
             /\ call' = [call EXCEPT ![p] = UpdateAfterRefreshSecret([c EXCEPT !.log = lg], ok)]
    /\ UNCHANGED <<apps, configs, hist, ops>>

\* mutant: history is written whether or not the version changed
UpdateWritesHistoryAlways(c) == TRUE

\* if app.Version != newApp.Version
UpdateWritesHistory(c) == c.app.Version # c.newApp.Version

\* mutant: a failure of dbStorage.CreateApplication is returned
UpdateAfterHistoryFatal(c, ok) ==
    IF ok THEN Return(c, NoErr, c.newApp) ELSE Return(c, CallErr("History.CreateApplication"), NoApp)

\* a failure of dbStorage.CreateApplication is logged; Update returns newApp, nil
UpdateAfterHistory(c, ok) == Return(c, NoErr, c.newApp)

UpdateHistory(p) ==
    /\ call[p].pc = "u_hist"
    /\ \E ok \in BOOLEAN :
         LET c == call[p]
             w == UpdateWritesHistory(c)
             lg == IF w THEN Append(c.log, LogEntry("History.CreateApplication", c.newApp.Namespace,
                                                    c.newApp.Name, {}, c.newApp.Version, ok))
                   ELSE c.log
         IN  /\ hist' = IF w /\ ok THEN hist \cup {HistCreated(c.newApp)} ELSE hist
             /\ call' = [call EXCEPT ![p] = UpdateAfterHistory([c EXCEPT !.log = lg], ok)]
    /\ UNCHANGED <<apps, configs, index, ops>>

\* ------------------------------------------------------------------------
\* Delete
\* ------------------------------------------------------------------------
StartDelete(p) ==
    /\ \A q \in Procs : call[q].pc = "idle"
    /\ ops < MaxOps
    /\ \E ns \in TargetNS, n \in AppNames, v \in {1} :
         call' = [call EXCEPT ![p] = [IdleCall EXCEPT !.pc = "d_store", !.op = "Delete",
                                                      !.ns = ns, !.name = n, !.ver = v]]
    /\ ops' = ops + 1
    /\ UNCHANGED <<apps, configs, index, hist>>

\* mutant: the error of DeleteApplication is logged and the call goes on
DeleteAfterStoreLogged(c, ok) == [c EXCEPT !.pc = "d_refcfg"]

DeleteAfterStore(c, ok) ==
    IF ok THEN [c EXCEPT !.pc = "d_refcfg"] ELSE Return(c, CallErr("DeleteApplication"), NoApp)

DeleteStore(p) ==
    /\ call[p].pc = "d_store"
    /\ \E ok \in BOOLEAN :
         LET c == call[p]
             lg == Append(c.log, LogEntry("DeleteApplication", c.ns, c.name, {}, 0, ok))
         IN  /\ apps' = IF ok THEN [apps EXCEPT ![<<c.ns, c.name>>] = NoApp] ELSE apps
             /\ call' = [call EXCEPT ![p] = DeleteAfterStore([c EXCEPT !.log = lg], ok)]
    /\ UNCHANGED <<configs, index, hist, ops>>

\* mutant: a failed refresh is returned
DeleteAfterRefreshConfigFatal(c, ok) ==
    IF ok THEN [c EXCEPT !.pc = "d_refsec"] ELSE Return(c, CallErr("RefreshConfigIndexByApp"), NoApp)

\* a failure is logged and the call goes on
DeleteAfterRefreshConfig(c, ok) == [c EXCEPT !.pc = "d_refsec"]

DeleteRefreshConfig(p) ==
    /\ call[p].pc = "d_refcfg"
    /\ \E ok \in BOOLEAN :
         LET c == call[p]
             lg == Append(c.log, LogEntry("RefreshConfigIndexByApp", c.ns, c.name, {}, 0, ok))
         IN  /\ index' = IF ok THEN RefreshConfigIndex(c.ns, c.name, <<>>) ELSE index
             /\ call' = [call EXCEPT ![p] = DeleteAfterRefreshConfig([c EXCEPT !.log = lg], ok)]
    /\ UNCHANGED <<apps, configs, hist, ops>>

DeleteAfterRefreshSecret(c, ok) == [c EXCEPT !.pc = "d_hist"]

DeleteRefreshSecret(p) ==
    /\ call[p].pc = "d_refsec"
    /\ \E ok \in BOOLEAN :
         LET c == call[p]
             lg == Append(c.log, LogEntry("RefreshSecretIndexByApp", c.ns, c.name, {}, 0, ok))
         IN  /\ index' = IF ok THEN RefreshSecretIndex(c.ns, c.name, <<>>) ELSE index
             /\ call' = [call EXCEPT ![p] = DeleteAfterRefreshSecret([c EXCEPT !.log = lg], ok)]
    /\ UNCHANGED <<apps, configs, hist, ops>>

\* a failure of dbStorage.DeleteApplication is logged; Delete returns nil
DeleteAfterHistory(c, ok) == Return(c, NoErr, NoApp)

DeleteHistory(p) ==
    /\ call[p].pc = "d_hist"
    /\ \E ok \in BOOLEAN :
         LET c == call[p]
             lg == Append(c.log, LogEntry("History.DeleteApplication", c.ns, c.name, {}, c.ver, ok))
         IN  /\ hist' = IF ok THEN hist \cup {HistDeleted(c.ns, c.name, c.ver)} ELSE hist
             /\ call' = [call EXCEPT ![p] = DeleteAfterHistory([c EXCEPT !.log = lg], ok)]
    /\ UNCHANGED <<apps, configs, index, ops>>

\* ------------------------------------------------------------------------
\* CreateWithBase
\* ------------------------------------------------------------------------
\* if base != nil { if namespace != base.Namespace { constuctConfig } }
NeedsConstruct(ns, base) == base # NoApp /\ ns # base.Namespace

StartCreateWithBaseOf(p, bases) ==
    /\ \A q \in Procs : call[q].pc = "idle"
    /\ ops < MaxOps
    /\ \E ns \in TargetNS, a \in BaseApps, b \in bases :
         call' = [call EXCEPT ![p] =
                    [IdleCall EXCEPT !.pc = IF NeedsConstruct(ns, b) THEN "b_construct" ELSE "b_merge",
                                     !.op = "CreateWithBase", !.ns = ns, !.app = a, !.base = b]]
    /\ ops' = ops + 1
    /\ UNCHANGED <<apps, configs, index, hist>>

StartCreateWithBase(p) == StartCreateWithBaseOf(p, InputBases)

\* mutant: the reference keeps the name of the Config that could not be created
RetriedRefKeepsName(n, n2, ver) == Ref(n, ver)

\* v.Config.Name = config.Name; v.Config.Version = config.Version after the
\* retry under the name n2 succeeded
RetriedRef(n, n2, ver) == Ref(n2, ver)

\* constuctConfig: one iteration of the loop over base.Volumes; the result is
\* the call (base mutated in place), the Config store and the error returned
ConstructVolume(c, okG, fine1, fine2, tok, ver) ==
    LET v == c.base.Volumes[c.i]
        n == v.Config.Name
        bns == c.base.Namespace
        got == okG /\ ConfigFound(bns, n)
        ok1 == fine1 /\ CanCreateConfig(c.ns, n)
        n2 == Renamed(n, tok)
        ok2 == fine2 /\ n2 \in ConfigUniverse /\ CanCreateConfig(c.ns, n2)
        lgG == Append(c.log, LogEntry("GetConfig", bns, n, {}, IF got THEN configs[<<bns, n>>] ELSE 0, got))
        lg1 == Append(lgG, LogEntry("CreateConfig", c.ns, n, {}, IF ok1 THEN ver ELSE 0, ok1))
        lg2 == Append(lg1, LogEntry("CreateConfig", c.ns, n2, {}, IF ok2 THEN ver ELSE 0, ok2))
    IN  IF v.Config = NilRef
        THEN [c |-> [c EXCEPT !.i = c.i + 1], configs |-> configs, err |-> NoErr]
        ELSE IF ~got
        THEN [c |-> [c EXCEPT !.log = lgG], configs |-> configs,
              err |-> Err("ErrResourceNotFound", "config", n)]
        ELSE IF ok1
        THEN [c |-> [c EXCEPT !.base.Volumes[c.i].Config.Version = ver, !.log = lg1, !.i = c.i + 1],
              configs |-> [configs EXCEPT ![<<c.ns, n>>] = ver], err |-> NoErr]
        ELSE IF ok2
        THEN [c |-> [c EXCEPT !.base.Volumes[c.i].Config = RetriedRef(n, n2, ver), !.log = lg2, !.i = c.i + 1],
              configs |-> [configs EXCEPT ![<<c.ns, n2>>] = ver], err |-> NoErr]
        ELSE [c |-> [c EXCEPT !.log = lg2], configs |-> configs, err |-> CallErr("CreateConfig")]

\* err := a.constuctConfig(namespace, base); if err != nil { return nil, err }
BaseAfterConstruct(c, e) ==
    IF e # NoErr THEN Return(c, e, NoApp)
    ELSE IF c.i > Len(c.base.Volumes) THEN [c EXCEPT !.pc = "b_merge", !.i = 1]
    ELSE c

BaseConstruct(p) ==
    /\ call[p].pc = "b_construct"
    /\ \E okG \in BOOLEAN, fine1 \in BOOLEAN, fine2 \in BOOLEAN, tok \in RandTokens, ver \in 1..MaxVer :
         LET c == call[p]
             r == IF c.i > Len(c.base.Volumes)
                  THEN [c |-> c, configs |-> configs, err |-> NoErr]
                  ELSE ConstructVolume(c, okG, fine1, fine2, tok, ver)
         IN  /\ configs' = r.configs
             /\ call' = [call EXCEPT ![p] = BaseAfterConstruct(r.c, r.err)]
    /\ UNCHANGED <<apps, index, hist, ops>>

\* app.Services = append(base.Services, app.Services...); same for Volumes
Merged(a, base) ==
    IF base = NoApp THEN a
    ELSE [a EXCEPT !.Services = base.Services \o a.Services, !.Volumes = base.Volumes \o a.Volumes]

\* err := a.validName(app); if err != nil { return nil, err }; return a.Create(namespace, app)
BaseAfterValidate(c, e) ==
    IF e # NoErr THEN Return(c, e, NoApp) ELSE [c EXCEPT !.pc = "c_resolve", !.i = 1]

BaseMerge(p) ==
    /\ call[p].pc = "b_merge"
    /\ LET c == [call[p] EXCEPT !.app = Merged(call[p].app, call[p].base)]
       IN  call' = [call EXCEPT ![p] = BaseAfterValidate(c, validName(c.app))]
    /\ UNCHANGED <<apps, configs, index, hist, ops>>

\* ------------------------------------------------------------------------
\* Get
\* ------------------------------------------------------------------------
\* the text of an error of the Resource Store, as the words it is made of
ErrorTexts == {<<"app", "not found">>, <<"connection", "refused">>}
\* strings.Contains(err.Error(), "not found")
ContainsNotFound(text) == \E k \in 1..Len(text) : text[k] = "not found"
\* the error storage.GetApplication returns with the text given
LookupErr(text) == [kind |-> "collaborator", where |-> "GetApplication", name |-> "", text |-> text]

StartGet(p) ==
    /\ \A q \in Procs : call[q].pc = "idle"
    /\ ops < MaxOps
    /\ \E ns \in TargetNS, n \in AppNames, v \in {0, 1} :
         call' = [call EXCEPT ![p] = [IdleCall EXCEPT !.pc = "g_lookup", !.op = "Get",
                                                      !.ns = ns, !.name = n, !.ver = v]]
    /\ ops' = ops + 1
    /\ UNCHANGED <<apps, configs, index, hist>>

\* mutant: every error of the store is passed through
GetResultUnmapped(c, found, e) == Return(c, e, found)

\* lines 56-61: a not-found error becomes ErrResourceNotFound(type app, name);
\* otherwise what the store returned is returned
GetResult(c, found, e) ==
    IF e # NoErr /\ ContainsNotFound(e.text)
    THEN Return(c, Err("ErrResourceNotFound", "app", c.name), NoApp)
    ELSE Return(c, e, found)

\* app, err := a.storage.GetApplication(namespace, name, version)
GetLookup(p) ==
    /\ call[p].pc = "g_lookup"
    /\ \E fine \in BOOLEAN, text \in ErrorTexts :
         LET c == call[p]
             ok == fine /\ apps[<<c.ns, c.name>>] # NoApp
             found == IF ok THEN apps[<<c.ns, c.name>>] ELSE NoApp
             e == IF ok THEN NoErr ELSE LookupErr(text)
             lg == Append(c.log, LogEntry("GetApplication", c.ns, c.name, {}, found.Version, ok))
         IN  call' = [call EXCEPT ![p] = GetResult([c EXCEPT !.log = lg, !.rerr = e], found, e)]
    /\ UNCHANGED <<apps, configs, index, hist, ops>>

Next ==
    \E p \in SeqProcs :
        \/ StartCreate(p)
        \/ CreateResolve(p)
        \/ CreateRefreshConfig(p)
        \/ CreateRefreshSecret(p)
        \/ CreateStore(p)
        \/ CreateHistory(p)
        \/ StartUpdate(p)
        \/ UpdateValidate(p)
        \/ UpdateResolve(p)
        \/ UpdateStore(p)
        \/ UpdateRefreshConfig(p)
        \/ UpdateRefreshSecret(p)
        \/ UpdateHistory(p)
        \/ StartDelete(p)
        \/ DeleteStore(p)
        \/ DeleteRefreshConfig(p)
        \/ DeleteRefreshSecret(p)
        \/ DeleteHistory(p)
        \/ StartCreateWithBase(p)
        \/ BaseConstruct(p)
        \/ BaseMerge(p)
        \/ StartGet(p)
        \/ GetLookup(p)
        \/ Finish(p)

Spec == Init /\ [][Next]_vars

\* ------------------------------------------------------------------------
\* Observations used by the properties
\* ------------------------------------------------------------------------
Refreshes == {"RefreshConfigIndexByApp", "RefreshSecretIndexByApp"}
Resolves == {"GetConfig", "GetSecret"}
StoreMutations == {"CreateApplication", "UpdateApplication", "DeleteApplication"}
HistoryCalls == {"History.CreateApplication", "History.DeleteApplication"}

\* the collaborator calls of the call c, in order
CallsOf(c, names) == {k \in 1..Len(c.log) : c.log[k].call \in names}
Invoked(c, names) == CallsOf(c, names) # {}
FailedIn(c, names) == \E k \in CallsOf(c, names) : ~c.log[k].ok
SucceededIn(c, names) == \E k \in CallsOf(c, names) : c.log[k].ok

\* the Config / Secret names the Volumes of an Application reference
ConfigRefs(a) == {a.Volumes[k].Config.Name : k \in {j \in 1..Len(a.Volumes) : a.Volumes[j].Config # NilRef}}
SecretRefs(a) == {a.Volumes[k].Secret.Name : k \in {j \in 1..Len(a.Volumes) : a.Volumes[j].Secret # NilRef}}

Finished(c) == c.pc = "done"

\* ------------------------------------------------------------------------
\* C1: Create fails the whole call when resolving a Volume's Config or
\* Secret reference fails: it returns an error and invokes neither index
\* refresh nor CreateApplication of the Resource Store or the History Store.
\* ------------------------------------------------------------------------
C1_CreateAbortsOnResolveFailure ==
    \A p \in Procs :
        LET c == call[p]
        IN  (Finished(c) /\ c.op = "Create" /\ FailedIn(c, Resolves))
            => /\ c.res.err # NoErr
               /\ ~Invoked(c, Refreshes \cup {"CreateApplication", "History.CreateApplication"})

\* ------------------------------------------------------------------------
\* C2: whenever Create or Update returns success, both index refreshes were
\* invoked during the call with exactly the Config names, respectively
\* Secret names, that the Volumes of the persisted Application reference.
\* ------------------------------------------------------------------------
C2_RefreshedWithExactNames ==
    \A p \in Procs :
        LET c == call[p]
        IN  (Finished(c) /\ c.op \in {"Create", "Update"} /\ c.res.err = NoErr)
            => /\ Invoked(c, {"RefreshConfigIndexByApp"})
               /\ Invoked(c, {"RefreshSecretIndexByApp"})
               /\ \A k \in CallsOf(c, {"RefreshConfigIndexByApp"}) : c.log[k].names = ConfigRefs(c.res.app)
               /\ \A k \in CallsOf(c, {"RefreshSecretIndexByApp"}) : c.log[k].names = SecretRefs(c.res.app)

\* ------------------------------------------------------------------------
\* C3: between calls (every call completed, failed ones included), for every
\* namespace and every Config or Secret name, the reverse index entry is the
\* set of stored Applications whose Volumes reference that name.
\* ------------------------------------------------------------------------
IndexedBy(ns, kind, n) ==
    {a \in AppNames : n \in (IF kind = "config" THEN index[<<ns, a>>].configs ELSE index[<<ns, a>>].secrets)}
ReferencedBy(ns, kind, n) ==
    {a \in AppNames : /\ apps[<<ns, a>>] # NoApp
                      /\ n \in (IF kind = "config" THEN ConfigRefs(apps[<<ns, a>>])
                                ELSE SecretRefs(apps[<<ns, a>>]))}
C3_IndexMatchesStore ==
    (\A p \in Procs : call[p].pc \in {"idle", "done"})
    => \A ns \in NS :
          /\ \A n \in ConfigUniverse : IndexedBy(ns, "config", n) = ReferencedBy(ns, "config", n)
          /\ \A n \in SecretNames : IndexedBy(ns, "secret", n) = ReferencedBy(ns, "secret", n)

\* ------------------------------------------------------------------------
\* C4 as stated: in Update, a failed index refresh after the Resource Store
\* update succeeded is swallowed and Update returns the updated Application
\* with no error.
\* ------------------------------------------------------------------------
C4_UpdateSwallowsRefreshFailure ==
    \A p \in Procs :
        LET c == call[p]
        IN  (Finished(c) /\ c.op = "Update" /\ SucceededIn(c, {"UpdateApplication"}) /\ FailedIn(c, Refreshes))
            => (c.res.err = NoErr /\ c.res.app = c.newApp)

\* C4 as amended: in Update, a failed index refresh after the Resource Store
\* update succeeded ends the call at once: Update returns the error of that
\* refresh and no Application, calls nothing after it (no History Store
\* write), and the Resource Store keeps the updated Application.
C4_UpdateRefreshFailureIsFatal ==
    \A p \in Procs :
        LET c == call[p]
            last == c.log[Len(c.log)]
        IN  (c.op = "Update" /\ FailedIn(c, Refreshes))
            => /\ Finished(c)
               /\ last.call \in Refreshes /\ ~last.ok
               /\ c.res.err = CallErr(last.call)
               /\ c.res.app = NoApp
               /\ ~Invoked(c, HistoryCalls)
               /\ SucceededIn(c, {"UpdateApplication"})
               /\ apps[<<c.ns, c.app.Name>>] = c.newApp

C4_Witness ==
    \E p \in Procs :
        /\ Finished(call[p]) /\ call[p].op = "Update"
        /\ SucceededIn(call[p], {"UpdateApplication"})
        /\ FailedIn(call[p], {"RefreshSecretIndexByApp"})

\* ------------------------------------------------------------------------
\* C5: CreateWithBase aborts before any mutation when validation of the
\* merged Application or reference resolution fails: it returns an error, no
\* Config has been created in the target namespace, no index entry has been
\* refreshed, no Application has been persisted or recorded in history.
\* ------------------------------------------------------------------------
ValidationErrors == {"ErrAppNameConflict", "ErrVolumeNotFoundWhenMount"}
C5_BaseAbortsBeforeMutation ==
    \A p \in Procs :
        LET c == call[p]
        IN  (Finished(c) /\ c.op = "CreateWithBase"
               /\ (c.res.err.kind \in ValidationErrors \/ FailedIn(c, Resolves)))
            => /\ c.res.err # NoErr
               /\ ~SucceededIn(c, {"CreateConfig"})
               /\ ~Invoked(c, Refreshes \cup {"CreateApplication", "History.CreateApplication"})

\* ------------------------------------------------------------------------
\* C6: Update rejects before touching any store: when validName fails or
\* resolving a Config/Secret reference fails, Update returns that error at
\* once and invokes neither UpdateApplication, nor an index refresh, nor the
\* History Store.
\* ------------------------------------------------------------------------
C6_UpdateRejectsBeforeStores ==
    \A p \in Procs :
        LET c == call[p]
            invalid == validName(c.app) # NoErr
        IN  (c.op = "Update" /\ c.pc # "u_valid" /\ (invalid \/ FailedIn(c, Resolves)))
            => /\ Finished(c)
               /\ c.res.err = (IF invalid THEN validName(c.app) ELSE CallErr(c.log[Len(c.log)].call))
               /\ c.res.app = NoApp
               /\ invalid => c.log = <<>>
               /\ ~Invoked(c, {"UpdateApplication"} \cup Refreshes \cup HistoryCalls)

C6_Witness ==
    \E p \in Procs :
        /\ Finished(call[p]) /\ call[p].op = "Update"
        /\ FailedIn(call[p], Resolves)
        /\ apps[<<call[p].ns, call[p].app.Name>>] # NoApp

\* ------------------------------------------------------------------------
\* C7: in Create, a failed index refresh ends the call with that error and
\* the Application is not persisted (no CreateApplication of the Resource
\* Store or the History Store); CreateApplication is only ever invoked after
\* both refreshes succeeded.
\* ------------------------------------------------------------------------
C7_CreateRefreshFailureIsFatal ==
    \A p \in Procs :
        LET c == call[p]
            last == c.log[Len(c.log)]
        IN  c.op \in {"Create", "CreateWithBase"}
            => /\ FailedIn(c, Refreshes)
                  => /\ Finished(c)
                     /\ last.call \in Refreshes /\ ~last.ok
                     /\ c.res.err = CallErr(last.call)
                     /\ c.res.app = NoApp
                     /\ ~Invoked(c, {"CreateApplication", "History.CreateApplication"})
               /\ \A k \in CallsOf(c, {"CreateApplication"}) :
                     /\ \E i \in 1..(k - 1) : c.log[i].call = "RefreshConfigIndexByApp" /\ c.log[i].ok
                     /\ \E j \in 1..(k - 1) : c.log[j].call = "RefreshSecretIndexByApp" /\ c.log[j].ok

C7_Witness ==
    \E p \in Procs :
        /\ Finished(call[p]) /\ call[p].op = "Create"
        /\ SucceededIn(call[p], {"RefreshConfigIndexByApp"})
        /\ FailedIn(call[p], {"RefreshSecretIndexByApp"})

\* ------------------------------------------------------------------------
\* C8: Delete returns success if and only if DeleteApplication of the
\* Resource Store succeeds, whatever the two index refreshes and the History
\* Store do.
\* ------------------------------------------------------------------------
C8_DeleteResultIsStoreResult ==
    \A p \in Procs :
        LET c == call[p]
        IN  (Finished(c) /\ c.op = "Delete")
            => /\ (c.res.err = NoErr) <=> SucceededIn(c, {"DeleteApplication"})
               /\ (c.res.err # NoErr) => c.res.err = CallErr("DeleteApplication")

C8_Witness ==
    \E p \in Procs :
        /\ Finished(call[p]) /\ call[p].op = "Delete" /\ call[p].res.err = NoErr
        /\ FailedIn(call[p], {"RefreshConfigIndexByApp"})
        /\ FailedIn(call[p], {"RefreshSecretIndexByApp"})
        /\ FailedIn(call[p], {"History.DeleteApplication"})

\* ------------------------------------------------------------------------
\* C9: when the Resource Store mutation of Create, Update or Delete fails,
\* the call returns that error and that call was its last collaborator call:
\* no index refresh after it, no History Store write.
\* ------------------------------------------------------------------------
C9_StoreFailureEndsCall ==
    \A p \in Procs :
        LET c == call[p]
        IN  \A k \in CallsOf(c, StoreMutations) :
              ~c.log[k].ok
              => /\ k = Len(c.log)
                 /\ Finished(c)
                 /\ c.res.err = CallErr(c.log[k].call)
                 /\ c.res.app = NoApp
                 /\ ~Invoked(c, HistoryCalls)

C9_Witness ==
    \E p \in Procs :
        /\ Finished(call[p]) /\ call[p].op = "Delete"
        /\ FailedIn(call[p], {"DeleteApplication"})

\* ------------------------------------------------------------------------
\* C10: a failure of the History Store never changes the result of Create,
\* Update, Delete or CreateWithBase: whether the History Store call succeeded
\* or failed, the call returns no error and the Application the Resource
\* Store persisted (nothing for Delete).
\* ------------------------------------------------------------------------
C10_HistoryFailureInvisible ==
    \A p \in Procs :
        LET c == call[p]
        IN  (Finished(c) /\ Invoked(c, HistoryCalls))
            => /\ c.res.err = NoErr
               /\ c.res.app = (IF c.op = "Delete" THEN NoApp ELSE apps[<<c.ns, c.app.Name>>])
               /\ c.op # "Delete" => c.res.app # NoApp

C10_Witness ==
    \E p \in Procs :
        /\ Finished(call[p]) /\ call[p].op = "Update"
        /\ FailedIn(call[p], HistoryCalls)

\* ------------------------------------------------------------------------
\* C11: version pinning.  In every Application that Create or Update hands
\* to the Resource Store, each Volume that references a Config or Secret
\* carries the version the Resource Store returned for that (namespace,
\* name) earlier in this call, never the version the caller supplied.
\* ------------------------------------------------------------------------
\* the reference r of the call c was resolved by call number k of c
ResolvedBy(c, k, callName, r) ==
    /\ c.log[k].call = callName /\ c.log[k].ok
    /\ c.log[k].ns = c.ns /\ c.log[k].name = r.Name /\ c.log[k].ver = r.Version

C11_PersistedVersionsArePinned ==
    \A p \in Procs :
        LET c == call[p]
        IN  \A s \in CallsOf(c, {"CreateApplication", "UpdateApplication"}) :
              \A j \in 1..Len(c.app.Volumes) :
                 LET v == c.app.Volumes[j]
                 IN  /\ v.Config # NilRef => \E k \in 1..(s - 1) : ResolvedBy(c, k, "GetConfig", v.Config)
                     /\ v.Secret # NilRef => \E k \in 1..(s - 1) : ResolvedBy(c, k, "GetSecret", v.Secret)

\* ------------------------------------------------------------------------
\* C12: CreateWithBase with a base of another namespace, for each base Volume
\* that references a Config (and whose Config could be fetched): if the first
\* CreateConfig in the target namespace succeeds, the reference keeps its
\* name and takes the created version; if it fails and the retry under the
\* suffixed name succeeds, the reference takes the new name (not the original
\* one) and its version; if the retry fails too, CreateWithBase returns that
\* error and persists no Application.
\* ------------------------------------------------------------------------
\* the collaborator calls the step from call c to call d added
NewCalls(c, d) == SubSeq(d.log, Len(c.log) + 1, Len(d.log))

ConstructOutcome(p) ==
    LET c == call[p]
        d == call'[p]
        old == c.base.Volumes[c.i].Config
        new == d.base.Volumes[c.i].Config
        fresh == NewCalls(c, d)
    IN  (fresh[1].call = "GetConfig" /\ fresh[1].ok)
        => /\ Len(fresh) \in {2, 3}
           /\ fresh[2].call = "CreateConfig" /\ fresh[2].ns = c.ns /\ fresh[2].name = old.Name
           /\ fresh[2].ok
              => /\ Len(fresh) = 2
                 /\ new = Ref(old.Name, fresh[2].ver)
                 /\ configs'[<<c.ns, old.Name>>] = new.Version
           /\ ~fresh[2].ok
              => /\ Len(fresh) = 3
                 /\ fresh[3].call = "CreateConfig" /\ fresh[3].ns = c.ns
                 /\ fresh[3].name \in {Renamed(old.Name, t) : t \in RandTokens}
                 /\ fresh[3].ok
                    => /\ new = Ref(fresh[3].name, fresh[3].ver)
                       /\ new.Name # old.Name
                       /\ configs'[<<c.ns, new.Name>>] = new.Version
                 /\ ~fresh[3].ok
                    => /\ Finished(d)
                       /\ d.res = [err |-> CallErr("CreateConfig"), app |-> NoApp]
                       /\ ~Invoked(d, {"CreateApplication", "History.CreateApplication"})
                       /\ apps' = apps /\ configs' = configs

C12_ConstructConfigOutcome ==
    [][\A p \in Procs :
         (/\ call[p].pc = "b_construct"
          /\ call'[p] # call[p]
          /\ call[p].i <= Len(call[p].base.Volumes)
          /\ call[p].base.Volumes[call[p].i].Config # NilRef)
         => ConstructOutcome(p)]_vars

\* one base Volume was renamed after a collision, another kept its name
C12_Witness ==
    \E p \in Procs :
        LET b == call[p].base
        IN  /\ call[p].op = "CreateWithBase" /\ call[p].pc = "b_merge"
            /\ \E j \in 1..Len(b.Volumes) :
                 /\ b.Volumes[j].Config.Name \in {Renamed(n, t) : n \in BaseConfigNames, t \in RandTokens}
                 /\ configs[<<call[p].ns, b.Volumes[j].Config.Name>>] = b.Volumes[j].Config.Version
            /\ \E j \in 1..Len(b.Volumes) :
                 /\ b.Volumes[j].Config.Name \in BaseConfigNames
                 /\ SucceededIn(call[p], {"CreateConfig"})

\* ------------------------------------------------------------------------
\* C13: Get returns ErrResourceNotFound (type "app", the requested name)
\* whenever the lookup fails with a not-found error, returns any other store
\* error unchanged, returns the stored Application on success, and never
\* changes the Resource Store, the reverse index or the History Store.
\* ------------------------------------------------------------------------
C13_GetResult ==
    \A p \in Procs :
        LET c == call[p]
            stored == apps[<<c.ns, c.name>>]
        IN  (Finished(c) /\ c.op = "Get")
            => /\ Len(c.log) = 1 /\ c.log[1].call = "GetApplication"
               /\ c.log[1].ok => c.res = [err |-> NoErr, app |-> stored] /\ stored # NoApp
               /\ (~c.log[1].ok /\ "not found" \in Range(c.rerr.text))
                  => c.res = [err |-> Err("ErrResourceNotFound", "app", c.name), app |-> NoApp]
               /\ (~c.log[1].ok /\ "not found" \notin Range(c.rerr.text))
                  => c.res = [err |-> c.rerr, app |-> NoApp] /\ c.rerr # NoErr

\* no step of Get changes a store
C13_GetChangesNothing ==
    [][\A p \in Procs :
         (call[p].op = "Get" \/ call'[p].op = "Get") => UNCHANGED <<apps, configs, index, hist>>]_vars

\* C13, whole: the result of Get and its leaving every store unchanged
C13_GetContract == C13_GetChangesNothing /\ []C13_GetResult

\* a Get that found nothing, in a store that holds references and history
C13_Witness ==
    \E p \in Procs :
        /\ Finished(call[p]) /\ call[p].op = "Get"
        /\ call[p].res.err.kind = "ErrResourceNotFound"
        /\ hist # {}

\* ------------------------------------------------------------------------
\* C14: Update hands the new Application to the History Store if and only
\* if UpdateApplication and both index refreshes succeeded and the version
\* the store returned differs from the version of the Application the caller
\* passed; it hands over exactly the Application the store returned, once,
\* and the History Store changes in no other step of Update.
\* ------------------------------------------------------------------------
UpdateHistoryDue(c) ==
    /\ SucceededIn(c, {"UpdateApplication"})
    /\ SucceededIn(c, {"RefreshConfigIndexByApp"})
    /\ SucceededIn(c, {"RefreshSecretIndexByApp"})
    /\ \E k \in CallsOf(c, {"UpdateApplication"}) : c.log[k].ok /\ c.log[k].ver # c.app.Version

C14_UpdateHistoryResult ==
    \A p \in Procs :
        LET c == call[p]
            h == CallsOf(c, {"History.CreateApplication"})
        IN  (Finished(c) /\ c.op = "Update")
            => /\ (h # {}) <=> UpdateHistoryDue(c)
               /\ ~Invoked(c, {"History.DeleteApplication"})
               /\ \A k \in h :
                    /\ h = {k}
                    /\ c.log[k].ver = c.newApp.Version /\ c.log[k].name = c.newApp.Name
                    /\ c.log[k].ns = c.newApp.Namespace
                    /\ c.log[k].ok => HistCreated(c.newApp) \in hist

\* a step of Update changes the History Store only by a successful append
C14_UpdateHistorySteps ==
    [][\A p \in Procs :
         (call'[p].op = "Update" /\ call'[p] # call[p] /\ hist' # hist)
         => /\ UpdateHistoryDue(call'[p])
            /\ hist' = hist \cup {HistCreated(call'[p].newApp)}]_vars

\* C14, whole: when Update calls the History Store, and that it writes it no other way
C14_UpdateHistory == C14_UpdateHistorySteps /\ []C14_UpdateHistoryResult

\* an Update that succeeded with the version unchanged and wrote no history
C14_Witness ==
    \E p \in Procs :
        /\ Finished(call[p]) /\ call[p].op = "Update" /\ call[p].res.err = NoErr
        /\ call[p].newApp.Version = call[p].app.Version
        /\ ~Invoked(call[p], HistoryCalls)

\* ------------------------------------------------------------------------
\* C15 as stated: there is no retry; within one call, once a collaborator
\* operation has failed, that operation is not invoked again.
\* ------------------------------------------------------------------------
C15_NoRetry ==
    \A p \in Procs :
        LET c == call[p]
        IN  \A k \in 1..Len(c.log) : \A l \in (k + 1)..Len(c.log) :
              ~c.log[k].ok => c.log[l].call # c.log[k].call

\* C15 as amended: within one call, a collaborator operation that failed is
\* not invoked again, except CreateConfig in constuctConfig: a failed first
\* CreateConfig for a base Volume is retried exactly once, at once, in the
\* same namespace under the suffixed name; a failed retry is the last
\* collaborator call of the call, a successful one lets the loop go on to
\* the later base Volumes.
FirstCreateConfig(c, k) ==
    c.log[k].call = "CreateConfig" /\ k > 1 /\ c.log[k - 1].call = "GetConfig"

C15_OnlyCreateConfigRetried ==
    \A p \in Procs :
        LET c == call[p]
        IN  \A k \in 1..Len(c.log) :
              ~c.log[k].ok
              => IF FirstCreateConfig(c, k)
                 THEN /\ k + 1 <= Len(c.log)
                      /\ c.log[k + 1].call = "CreateConfig"
                      /\ c.log[k + 1].ns = c.log[k].ns
                      /\ c.log[k + 1].name \in {Renamed(c.log[k].name, t) : t \in RandTokens}
                      /\ c.log[k + 1].name # c.log[k].name
                      /\ ~c.log[k + 1].ok => (k + 1 = Len(c.log) /\ Finished(c))
                 ELSE \A l \in (k + 1)..Len(c.log) : c.log[l].call # c.log[k].call

\* a CreateConfig failed, its retry succeeded and a later Volume's Config was created
C15_Witness ==
    \E p \in Procs :
        LET c == call[p]
        IN  \E k \in 1..Len(c.log) :
              /\ FirstCreateConfig(c, k) /\ ~c.log[k].ok
              /\ k + 1 <= Len(c.log) /\ c.log[k + 1].ok
              /\ \E l \in (k + 2)..Len(c.log) : c.log[l].call = "CreateConfig"

\* ------------------------------------------------------------------------
\* Concurrent Updates: two callers update the same stored Application; their
\* collaborator calls interleave (the service takes no lock)
\* ------------------------------------------------------------------------
ConcKey == <<"t1", "app">>
\* the Applications the two callers pass: both valid, with different references
ConcApps ==
    { App("", "app", 1, VCfg1, <<Svc("s1", <<"v1">>)>>),
      App("", "app", 1, <<Vol("v1", Ref("cfg2", 0), NilRef), Vol("v2", NilRef, Ref("sec1", 0))>>,
          <<Svc("s1", <<"v2">>)>>) }
\* the Application stored before the two Updates (created without a failure)
ConcStored == App("t1", "app", 1, <<Vol("v1", Ref("cfg1", 1), NilRef)>>, <<Svc("s1", <<"v1">>)>>)

InitConc ==
    /\ apps = [k \in NS \X AppNames |-> IF k = ConcKey THEN ConcStored ELSE NoApp]
    /\ configs = [k \in NS \X ConfigUniverse |->
                    IF k[2] \in BaseConfigNames THEN 1 ELSE 0]
    /\ index = [k \in NS \X AppNames |->
                    IF k = ConcKey THEN [configs |-> {"cfg1"}, secrets |-> {}] ELSE NoRefs]
    /\ hist = {HistCreated(ConcStored)}
    /\ call = [p \in Procs |-> IdleCall]
    /\ ops = 0

StartUpdateConc(p) ==
    /\ call[p].pc = "idle"
    /\ call[p].op = ""
    /\ \E a \in ConcApps :
         call' = [call EXCEPT ![p] = [IdleCall EXCEPT !.pc = "u_valid", !.op = "Update",
                                                      !.ns = ConcKey[1], !.app = a]]
    /\ UNCHANGED <<apps, configs, index, hist, ops>>

ConcNext ==
    \E p \in Procs :
        \/ StartUpdateConc(p)
        \/ UpdateValidate(p)
        \/ UpdateResolve(p)
        \/ UpdateStore(p)
        \/ UpdateRefreshConfig(p)
        \/ UpdateRefreshSecret(p)
        \/ UpdateHistory(p)

ConcSpec == InitConc /\ [][ConcNext]_vars

\* both Updates have returned and no collaborator call of either failed
BothUpdated ==
    /\ \A p \in Procs : Finished(call[p]) /\ call[p].op = "Update" /\ call[p].res.err = NoErr
    /\ \A p \in Procs : \A k \in 1..Len(call[p].log) : call[p].log[k].ok
    /\ \E p \in Procs, q \in Procs :
         <<ConfigRefs(call[p].app), SecretRefs(call[p].app)>>
            # <<ConfigRefs(call[q].app), SecretRefs(call[q].app)>>

\* ------------------------------------------------------------------------
\* C16 as stated: after two concurrent Updates of the same Application with
\* different references, all collaborator calls succeeding, the Resource
\* Store holds the Application of the last UpdateApplication and the index
\* entries of that Application are the names the stored Application references.
\* ------------------------------------------------------------------------
C16_IndexFollowsStore ==
    BothUpdated
    => /\ \E p \in Procs : apps[ConcKey] = call[p].newApp
       /\ index[ConcKey].configs = ConfigRefs(apps[ConcKey])
       /\ index[ConcKey].secrets = SecretRefs(apps[ConcKey])

\* C16 as amended: the Resource Store holds the Application of the last
\* UpdateApplication, and each of the two index entries (config, secret) of
\* that Application holds the names referenced by the Application of the
\* Update whose refresh of that entry ran last, which need not be the stored
\* Application (nor the same Update for the two entries).
\* Every successful write replaces what the store held, and nothing else
\* changes it:
C16_LastCallWinsSteps ==
    [][\A p \in Procs :
         LET c == call[p]
             d == call'[p]
         IN  /\ (c.pc = "u_store" /\ d.pc = "u_refcfg")
                => apps' = [apps EXCEPT ![ConcKey] = d.newApp] /\ index' = index
             /\ (c.pc = "u_refcfg" /\ d.pc = "u_refsec")
                => /\ index' = [index EXCEPT ![ConcKey].configs = ConfigRefs(c.newApp)]
                   /\ apps' = apps
             /\ (c.pc = "u_refsec" /\ d.pc = "u_hist")
                => /\ index' = [index EXCEPT ![ConcKey].secrets = SecretRefs(c.newApp)]
                   /\ apps' = apps
             /\ (d # c /\ ~(c.pc \in {"u_store", "u_refcfg", "u_refsec"} /\ d.pc # "done"))
                => (apps' = apps /\ index' = index)]_vars

C16_LastCallWinsResult ==
    BothUpdated
    => /\ \E p \in Procs : apps[ConcKey] = call[p].newApp
       /\ \E p \in Procs : index[ConcKey].configs = ConfigRefs(call[p].newApp)
       /\ \E p \in Procs : index[ConcKey].secrets = SecretRefs(call[p].newApp)

\* C16 as amended, whole
C16_LastCallWins == C16_LastCallWinsSteps /\ []C16_LastCallWinsResult

\* both Updates returned with success and the index names what the stored
\* Application does not reference
C16_Witness ==
    /\ BothUpdated
    /\ index[ConcKey].configs # ConfigRefs(apps[ConcKey])

\* ------------------------------------------------------------------------
\* validName as a function: the Application is drawn from all Applications
\* of bounded size over small name sets, and validName is applied to it
\* ------------------------------------------------------------------------
MaxVols == 4
MaxSvcs == 2
VolNames == {"a", "b"}
SvcNames == {"s", "t"}
\* the VolumeMounts of one Service; "c" is never the name of a Volume
MountLists == {<<>>, <<"a">>, <<"a", "c">>, <<"c", "a">>}
SeqsUpTo(S, n) == UNION {[1..m -> S] : m \in 0..n}
GenVolumes == SeqsUpTo({Vol(n, NilRef, NilRef) : n \in VolNames}, MaxVols)
GenServices ==
    SeqsUpTo({Svc(n, m) : n \in SvcNames, m \in MountLists}, MaxSvcs)
GenApps == {App("", "app", 0, vols, svcs) : vols \in GenVolumes, svcs \in GenServices}

ValidInit ==
    /\ apps = [k \in NS \X AppNames |-> NoApp]
    /\ configs = [k \in NS \X ConfigUniverse |-> 0]
    /\ index = [k \in NS \X AppNames |-> NoRefs]
    /\ hist = {}
    /\ \E a \in GenApps :
         call = [p \in Procs |->
                   IF p \in SeqProcs
                   THEN [IdleCall EXCEPT !.pc = "v_valid", !.op = "validName", !.app = a]
                   ELSE IdleCall]
    /\ ops = 0

ValidApply(p) ==
    /\ call[p].pc = "v_valid"
    /\ call' = [call EXCEPT ![p] = Return(call[p], validName(call[p].app), NoApp)]
    /\ UNCHANGED <<apps, configs, index, hist, ops>>

ValidNext == \E p \in SeqProcs : ValidApply(p)

ValidSpec == ValidInit /\ [][ValidNext]_vars

\* a completed application of validName
Validated(c) == Finished(c) /\ c.op = "validName"

VolumeNames(a) == [j \in 1..Len(a.Volumes) |-> a.Volumes[j].Name]
ServiceNames(a) == [j \in 1..Len(a.Services) |-> a.Services[j].Name]
PairwiseDistinct(names) ==
    \A i \in 1..Len(names), j \in 1..Len(names) : i # j => names[i] # names[j]
MountsDeclared(a) ==
    \A j \in 1..Len(a.Services) :
        \A k \in 1..Len(a.Services[j].VolumeMounts) :
            \E v \in 1..Len(a.Volumes) : a.Volumes[v].Name = a.Services[j].VolumeMounts[k]
WellFormed(a) ==
    /\ PairwiseDistinct(VolumeNames(a))
    /\ PairwiseDistinct(ServiceNames(a))
    /\ MountsDeclared(a)

\* the two permutations that generate every reordering of a sequence
Rotated(s) == IF Len(s) < 2 THEN s ELSE Tail(s) \o <<Head(s)>>
Swapped(s) == IF Len(s) < 2 THEN s ELSE <<s[2], s[1]>> \o Tail(Tail(s))
Reorderings(a) ==
    { [a EXCEPT !.Volumes = Rotated(a.Volumes)], [a EXCEPT !.Volumes = Swapped(a.Volumes)],
      [a EXCEPT !.Services = Rotated(a.Services)], [a EXCEPT !.Services = Swapped(a.Services)] }

\* ------------------------------------------------------------------------
\* C17: validName accepts an Application if and only if its Volume names are
\* pairwise distinct, its Service names are pairwise distinct and every
\* VolumeMount of every Service names a Volume of the Application; whether
\* it accepts does not depend on the order of the Volumes or of the Services.
\* ------------------------------------------------------------------------
C17_AcceptsWellFormed ==
    \A p \in SeqProcs :
        Validated(call[p])
        => /\ (call[p].res.err = NoErr) <=> WellFormed(call[p].app)
           /\ \A b \in Reorderings(call[p].app) :
                (validName(b) = NoErr) <=> (call[p].res.err = NoErr)

\* accepted: two Services, the first mounting the Volume declared last
C17_Witness ==
    \E p \in SeqProcs :
        /\ Validated(call[p])
        /\ call[p].res.err = NoErr
        /\ Len(call[p].app.Volumes) = 2
        /\ Len(call[p].app.Services) = 2
        /\ VolumeNames(call[p].app) = <<"b", "a">>
        /\ call[p].app.Services[1].VolumeMounts = <<"a">>

\* the position of the first name that repeats an earlier one (0: none)
FirstRepeat(names) ==
    LET R == {j \in 1..Len(names) : \E i \in 1..(j - 1) : names[i] = names[j]}
    IN  IF R = {} THEN 0 ELSE CHOOSE j \in R : \A i \in R : j <= i
\* the position of the first mount of Service s that names no Volume (0: none)
FirstMissing(a, s) ==
    LET M == {k \in 1..Len(s.VolumeMounts) : s.VolumeMounts[k] \notin Range(VolumeNames(a))}
    IN  IF M = {} THEN 0 ELSE CHOOSE k \in M : \A i \in M : k <= i
\* the position of the first Service that repeats an earlier Service name or
\* has a mount that names no Volume (0: none)
FirstBadService(a) ==
    LET B == {j \in 1..Len(a.Services) :
                \/ \E i \in 1..(j - 1) : a.Services[i].Name = a.Services[j].Name
                \/ FirstMissing(a, a.Services[j]) # 0}
    IN  IF B = {} THEN 0 ELSE CHOOSE j \in B : \A i \in B : j <= i
FirstViolation(a) ==
    LET v == FirstRepeat(VolumeNames(a))
        j == FirstBadService(a)
    IN  IF v # 0 THEN Err("ErrAppNameConflict", "Volumes[]", a.Volumes[v].Name)
        ELSE IF j = 0 THEN NoErr
        ELSE IF \E i \in 1..(j - 1) : a.Services[i].Name = a.Services[j].Name
             THEN Err("ErrAppNameConflict", "Services[]", a.Services[j].Name)
             ELSE Err("ErrVolumeNotFoundWhenMount", "",
                      a.Services[j].VolumeMounts[FirstMissing(a, a.Services[j])])

\* ------------------------------------------------------------------------
\* C18: validName reports the first violation only. A repeated Volume name
\* is reported (ErrAppNameConflict, Volumes[], the first name that repeats)
\* whatever the Services contain; otherwise the first Service in declaration
\* order that repeats an earlier Service name (ErrAppNameConflict,
\* Services[]) or has a mount naming no Volume (ErrVolumeNotFoundWhenMount,
\* its first such mount) determines the error.
\* ------------------------------------------------------------------------
C18_FirstViolationReported ==
    \A p \in SeqProcs :
        Validated(call[p]) => call[p].res.err = FirstViolation(call[p].app)

\* a repeated Volume name is reported although a Service mounts a Volume
\* that does not exist
C18_Witness ==
    \E p \in SeqProcs :
        /\ Validated(call[p])
        /\ call[p].res.err.where = "Volumes[]"
        /\ FirstBadService(call[p].app) # 0
        /\ VolumeNames(call[p].app) = <<"a", "b", "b", "a">>

\* ------------------------------------------------------------------------
\* Runs in which no collaborator call fails
\* ------------------------------------------------------------------------
NoFailure == \A p \in Procs : \A k \in 1..Len(call[p].log) : call[p].log[k].ok
\* the steps of Next that leave no failed call in a log
NoFailNext ==
    \E p \in SeqProcs :
        \/ StartCreate(p) /\ NoFailure'
        \/ CreateResolve(p) /\ NoFailure'
        \/ CreateRefreshConfig(p) /\ NoFailure'
        \/ CreateRefreshSecret(p) /\ NoFailure'
        \/ CreateStore(p) /\ NoFailure'
        \/ CreateHistory(p) /\ NoFailure'
        \/ StartUpdate(p) /\ NoFailure'
        \/ UpdateValidate(p) /\ NoFailure'
        \/ UpdateResolve(p) /\ NoFailure'
        \/ UpdateStore(p) /\ NoFailure'
        \/ UpdateRefreshConfig(p) /\ NoFailure'
        \/ UpdateRefreshSecret(p) /\ NoFailure'
        \/ UpdateHistory(p) /\ NoFailure'
        \/ StartDelete(p) /\ NoFailure'
        \/ DeleteStore(p) /\ NoFailure'
        \/ DeleteRefreshConfig(p) /\ NoFailure'
        \/ DeleteRefreshSecret(p) /\ NoFailure'
        \/ DeleteHistory(p) /\ NoFailure'
        \/ StartCreateWithBaseOf(p, InputBases \cup {FreshBase}) /\ NoFailure'
        \/ BaseConstruct(p) /\ NoFailure'
        \/ BaseMerge(p) /\ NoFailure'
        \/ StartGet(p) /\ NoFailure'
        \/ GetLookup(p) /\ NoFailure'
        \/ Finish(p) /\ NoFailure'
NoFailSpec == Init /\ [][NoFailNext]_vars

\* the Application a Create, Update or Delete is about
Affected(c) == <<c.ns, IF c.op = "Delete" THEN c.name ELSE c.app.Name>>

\* ------------------------------------------------------------------------
\* C19: when operations run one at a time and no collaborator call fails,
\* after each completed Create, Update or Delete the index entries of the
\* affected Application are the Config and Secret names the Application in
\* the Resource Store references; after Delete they are empty.
\* ------------------------------------------------------------------------
C19_IndexFollowsCompletedOp ==
    \A p \in SeqProcs :
        LET c == call[p]
            key == Affected(c)
        IN  (Finished(c) /\ c.op \in {"Create", "CreateWithBase", "Update", "Delete"})
            => /\ index[key].configs = ConfigRefs(apps[key])
               /\ index[key].secrets = SecretRefs(apps[key])
               /\ (c.op = "Delete" => index[key] = NoRefs /\ apps[key] = NoApp)

\* an Update that changed what the stored Application references has completed
C19_Witness ==
    \E p \in SeqProcs :
        /\ NoFailure
        /\ Finished(call[p])
        /\ call[p].op = "Update"
        /\ call[p].res.err = NoErr
        /\ index[Affected(call[p])].configs # {}
        /\ ops = 2

\* ------------------------------------------------------------------------
\* C20: History follows the primary store. Every History Store
\* CreateApplication of a call carries the Application version that a
\* successful Resource Store CreateApplication or UpdateApplication returned
\* earlier in the same call, and History Store DeleteApplication is invoked
\* only after a successful Resource Store DeleteApplication of the same call.
\* ------------------------------------------------------------------------
C20_HistoryFollowsStore ==
    \A p \in SeqProcs :
        LET lg == call[p].log
        IN  /\ \A k \in CallsOf(call[p], {"History.CreateApplication"}) :
                 \E j \in 1..(k - 1) :
                    /\ lg[j].call \in {"CreateApplication", "UpdateApplication"}
                    /\ lg[j].ok
                    /\ <<lg[j].ns, lg[j].name, lg[j].ver>> = <<lg[k].ns, lg[k].name, lg[k].ver>>
            /\ \A k \in CallsOf(call[p], {"History.DeleteApplication"}) :
                 \E j \in 1..(k - 1) :
                    /\ lg[j].call = "DeleteApplication"
                    /\ lg[j].ok
                    /\ <<lg[j].ns, lg[j].name>> = <<lg[k].ns, lg[k].name>>

\* a Delete has written History after an earlier operation had written it
C20_Witness ==
    \E p \in SeqProcs :
        /\ Finished(call[p])
        /\ SucceededIn(call[p], {"History.DeleteApplication"})
        /\ \E h \in hist : h.kind = "create"

====
